---- MODULE Spec2Model ----
(***************************************************************************)
(* A model of the deep-copy generator (src/main.go): the command line      *)
(* (main, outputVal), one generation run (run, generateFunc, walkType,     *)
(* getElemType, hasDeepCopy, reuseDeepCopy, selToIdent) and the text the   *)
(* walk emits, kept as a sequence of statement records.                    *)
(*                                                                         *)
(* A type expression is a sequence of tokens: constructors "[]", "*",      *)
(* "chan" and "map" (followed by the key's base type) and, last, the name  *)
(* of a base type declared in Decl.  <<"[]", "*", "X">> is []*X and        *)
(* <<"map", "string", "V">> is map[string]V.                               *)
(*                                                                         *)
(* A Go expression (source, sink, selector) is a sequence of tokens too:   *)
(* identifiers, ".", "[i]" and "[k]"; <<"cp", ".", "F", "[i]">> is         *)
(* cp.F[i].                                                                *)
(***************************************************************************)
EXTENDS Naturals, Sequences, FiniteSets, TLC

VARIABLES
    pc,        \* position of main
    typesF,    \* -type flags, in order
    skipsF,    \* -skip flags, in order: a sequence of sets of selectors
    pointerF,  \* -pointer-receiver
    outputF,   \* outputVal: [file, name]; file is 0 (nil) or a handle
    handles,   \* the open-file table: handle -> [name, open]
    disk,      \* contents of the files named on the command line
    objs,      \* run: the located types
    idx,       \* run: index of the loop of lines 162-174
    imports,   \* run: alias -> module path
    fns,       \* run: the functions generated so far
    overflow,  \* whether a walk exceeded MaxDepth
    runResult, \* "none", "ok" or "err"
    handed,    \* the <<alias, path>> pairs getElemType has answered with
    exitCode   \* what os.Exit was called with; 0 while running

vars == <<pc, typesF, skipsF, pointerF, outputF, handles, disk, objs,
          idx, imports, fns, overflow, runResult, handed, exitCode>>

\* The deepest recursion of walkType the model follows.
MaxDepth == 9
\* The most -o flags naming a file on one command line.
MaxOutputFlags == 2

-----------------------------------------------------------------------------
(* The type model (go/types), for a fixed universe of declarations.        *)

\* Package of the type: name and path (its segments).
Pkg == [ p    |-> [name |-> "p",   path |-> <<"m", "p">>],
         ext  |-> [name |-> "ext", path |-> <<"m", "ext">>],
         p2   |-> [name |-> "p",   path |-> <<"other", "p">>],
         foo1 |-> [name |-> "foo", path |-> <<"x", "foo">>],
         foo2 |-> [name |-> "foo", path |-> <<"foo">>],
         foo3 |-> [name |-> "foo", path |-> <<"y", "foo">>],
         bar  |-> [name |-> "y_foo", path |-> <<"z", "y_foo">>],
         ext2 |-> [name |-> "ext", path |-> <<"n", "ext">>] ]

\* The package the generator is run on (packages[0].Name).
x == "p"
TargetPkg == "p"

Fld(n, t, e) == [name |-> n, typ |-> t, exported |-> e]
Mth(n, np, res, recv) == [name |-> n, nparams |-> np, results |-> res, recv |-> recv]

Basic == [cls |-> "basic", name |-> "", pkg |-> "", under |-> <<>>, fields |-> <<>>, methods |-> <<>>]
Named(n, pk, under, fields, methods) ==
    [cls |-> "named", name |-> n, pkg |-> pk, under |-> under, fields |-> fields, methods |-> methods]
Anon(pk, fields) ==
    [cls |-> "struct", name |-> "", pkg |-> pk, under |-> <<>>, fields |-> fields, methods |-> <<>>]

Int == <<"int">>
Str == <<"string">>

\* The declarations of the universe.  The target package p declares the
\* requestable types; ext, p2 (whose short name is p too) and the foo
\* packages are other modules.
Decl ==
  [ int    |-> Basic,
    string |-> Basic,
    \* mutually referencing types
    A      |-> Named("A", "p", <<>>,
                 << Fld("Next", <<"*", "B">>, TRUE), Fld("Me", <<"*", "A">>, TRUE),
                    Fld("Val", Int, TRUE) >>, <<>>),
    B      |-> Named("B", "p", <<>>,
                 << Fld("Prev", <<"*", "A">>, TRUE), Fld("As", <<"[]", "A">>, TRUE),
                    Fld("PM", <<"map", "string", "*", "A">>, TRUE),
                    Fld("Head", <<"A">>, TRUE) >>, <<>>),
    X      |-> Named("X", "p", <<>>,
                 << Fld("N", Int, TRUE), Fld("P", <<"*", "int">>, TRUE) >>, <<>>),
    \* nested sequences
    R1     |-> Named("R1", "p", <<>>,
                 << Fld("G", <<"[]", "[]", "int">>, TRUE),
                    Fld("H", <<"[]", "[]", "[]", "int">>, TRUE),
                    Fld("Q", <<"[]", "[]", "*", "X">>, TRUE),
                    Fld("Ch", <<"chan", "int">>, TRUE) >>, <<>>),
    NL     |-> Named("NL", "p", <<"[]", "[]", "*", "X">>, <<>>, <<>>),
    NM     |-> Named("NM", "p", <<"map", "K", "[]", "*", "X">>, <<>>, <<>>),
    K      |-> Named("K", "p", <<>>, << Fld("P", <<"*", "int">>, TRUE) >>, <<>>),
    \* skip selectors
    S5     |-> Named("S5", "p", <<>>,
                 << Fld("F", <<"[]", "*", "X">>, TRUE),
                    Fld("Items", <<"[]", "*", "X">>, TRUE),
                    Fld("M", <<"map", "string", "V">>, TRUE),
                    Fld("LL", <<"[]", "[]", "*", "X">>, TRUE),
                    Fld("In", <<"V">>, TRUE) >>, <<>>),
    V      |-> Named("V", "p", <<>>,
                 << Fld("F", <<"[]", "*", "X">>, TRUE), Fld("N", Int, TRUE) >>, <<>>),
    \* cross-module aggregates
    E6     |-> Named("E6", "p", <<>>,
                 << Fld("E", <<"extT">>, TRUE), Fld("Q", <<"p2T">>, TRUE),
                    Fld("PE", <<"*", "extT">>, TRUE), Fld("own", <<"[]", "int">>, FALSE) >>, <<>>),
    extT   |-> Named("T", "ext", <<>>,
                 << Fld("Pub", <<"[]", "int">>, TRUE), Fld("hid", <<"[]", "int">>, FALSE),
                    Fld("Inner", <<"extAnon">>, TRUE) >>, <<>>),
    extAnon |-> Anon("ext", << Fld("secret", <<"[]", "int">>, FALSE) >>),
    p2T    |-> Named("T", "p2", <<>>, << Fld("u", <<"[]", "int">>, FALSE) >>, <<>>),
    \* DeepCopy methods
    W8     |-> Named("W8", "p", <<>>,
                 << Fld("G", <<"Good">>, TRUE), Fld("GP", <<"*", "Good">>, TRUE),
                    Fld("Gq", <<"GoodP">>, TRUE), Fld("PGq", <<"*", "GoodP">>, TRUE),
                    Fld("Bad", <<"BadSig">>, TRUE), Fld("Oth", <<"*", "Other">>, TRUE),
                    Fld("W", <<"Wt">>, TRUE) >>, <<>>),
    Good   |-> Named("Good", "p", <<>>, << Fld("P", <<"*", "int">>, TRUE) >>,
                 << Mth("String", 0, <<Str>>, <<"Good">>),
                    Mth("DeepCopy", 0, << <<"Good">> >>, <<"Good">>) >>),
    GoodP  |-> Named("GoodP", "p", <<>>, << Fld("P", <<"*", "int">>, TRUE) >>,
                 << Mth("DeepCopy", 0, << <<"*", "GoodP">> >>, <<"*", "GoodP">>) >>),
    BadSig |-> Named("BadSig", "p", <<>>, << Fld("P", <<"*", "int">>, TRUE) >>,
                 << Mth("DeepCopy", 1, << <<"BadSig">> >>, <<"BadSig">>) >>),
    Other  |-> Named("Other", "p", <<>>, << Fld("P", <<"*", "int">>, TRUE) >>,
                 << Mth("DeepCopy", 0, << <<"Good">> >>, <<"Other">>) >>),
    Wt     |-> Named("Wt", "p", <<>>, << Fld("N", Int, TRUE) >>,
                 << Mth("DeepCopy", 0, << <<"[]", "Wt">> >>, <<"Wt">>) >>),
    \* cycles
    C9     |-> Named("C9", "p", <<>>,
                 << Fld("N", <<"*", "Node">>, TRUE), Fld("L", <<"[]", "Node">>, TRUE),
                    Fld("Me", <<"map", "string", "*", "C9">>, TRUE) >>, <<>>),
    Node   |-> Named("Node", "p", <<>>,
                 << Fld("Next", <<"*", "Node">>, TRUE), Fld("Up", <<"*", "C9">>, TRUE) >>,
                 << Mth("DeepCopy", 0, << <<"*", "Node">> >>, <<"*", "Node">>) >>),
    Inf    |-> Named("Inf", "p", <<>>, << Fld("T", <<"*", "Tree">>, TRUE) >>, <<>>),
    Tree   |-> Named("Tree", "p", <<>>, << Fld("Kids", <<"[]", "Tree">>, TRUE) >>, <<>>),
    \* cross-module references
    I4     |-> Named("I4", "p", <<>>,
                 << Fld("A", <<"[]", "foo1T">>, TRUE), Fld("B", <<"[]", "foo2T">>, TRUE),
                    Fld("C", <<"*", "foo3T">>, TRUE), Fld("D", <<"map", "string", "barT">>, TRUE) >>, <<>>),
    foo1T  |-> Named("T", "foo1", <<>>, << Fld("N", Int, TRUE) >>, <<>>),
    foo2T  |-> Named("T", "foo2", <<>>, << Fld("N", Int, TRUE) >>, <<>>),
    foo3T  |-> Named("T", "foo3", <<>>, << Fld("N", Int, TRUE) >>, <<>>),
    barT   |-> Named("U", "bar", <<>>, << Fld("N", Int, TRUE) >>, <<>>),
    ext2T  |-> Named("T", "ext2", <<>>, << Fld("N", Int, TRUE) >>, <<>>) ]

Constructors == {"[]", "*", "chan", "map"}

\* The kind of the type expression itself (not of its underlying type).
TKind(t) ==
    IF t[1] = "[]" THEN "slice"
    ELSE IF t[1] = "*" THEN "ptr"
    ELSE IF t[1] = "chan" THEN "chan"
    ELSE IF t[1] = "map" THEN "map"
    ELSE Decl[t[1]].cls

IsNamed(t) == TKind(t) = "named"

\* Elem() and Key() of a slice, pointer, channel or map type expression.
ElemOf(t) == IF t[1] = "map" THEN SubSeq(t, 3, Len(t)) ELSE Tail(t)
KeyOf(t) == <<t[2]>>

\* m.Underlying(): of a named type its declared type, of any other itself.
Underlying(t) ==
    IF IsNamed(t) /\ Decl[t[1]].under # <<>> THEN Decl[t[1]].under ELSE t

\* The kind of the underlying type: the case of walkType's type switch.
UKind(t) ==
    LET u == Underlying(t)
    IN  IF TKind(u) \in {"named", "struct"} THEN "struct" ELSE TKind(u)

UFields(t) == Decl[Underlying(t)[1]].fields

\* Obj().Pkg() of a named type.
PkgOf(t) == Pkg[Decl[t[1]].pkg]
ObjName(t) == Decl[t[1]].name

-----------------------------------------------------------------------------
(* Strings.                                                                *)

RECURSIVE JoinWith(_, _)
JoinWith(segs, sep) ==
    IF Len(segs) = 0 THEN ""
    ELSE IF Len(segs) = 1 THEN segs[1]
    ELSE segs[1] \o sep \o JoinWith(Tail(segs), sep)

\* pkg.Path() as a string.
PathString(pk) == JoinWith(pk.path, "/")

\* strings.ReplaceAll(pkg.Path(), "/", "_")
FlattenPath(pk) == JoinWith(pk.path, "_")

\* t.String() of go/types: a named type is qualified by its package path.
RECURSIVE TypeString(_)
TypeString(t) ==
    IF t[1] = "[]" THEN "[]" \o TypeString(ElemOf(t))
    ELSE IF t[1] = "*" THEN "*" \o TypeString(ElemOf(t))
    ELSE IF t[1] = "chan" THEN "chan " \o TypeString(ElemOf(t))
    ELSE IF t[1] = "map" THEN "map[" \o TypeString(KeyOf(t)) \o "]" \o TypeString(ElemOf(t))
    ELSE IF Decl[t[1]].cls = "named" THEN PathString(PkgOf(t)) \o "." \o ObjName(t)
    ELSE IF Decl[t[1]].cls = "struct" THEN "struct{...}"
    ELSE t[1]

\* sel[strings.Index(sel, ".")+1:]: what follows the first "." of sel, and
\* all of sel when it has none (Index is -1).
RECURSIVE AfterFirstDot(_)
AfterFirstDot(sel) ==
    IF \A j \in 1..Len(sel) : sel[j] # "." THEN sel
    ELSE IF sel[1] = "." THEN Tail(sel)
    ELSE AfterFirstDot(Tail(sel))

\* One token of an expression as selToIdent writes it: "]" is removed, "["
\* and "." become "_".
IdentToken(tok) ==
    IF tok = "." THEN "_"
    ELSE IF tok = "[i]" THEN "_i"
    ELSE IF tok = "[k]" THEN "_k"
    ELSE tok

RECURSIVE selToIdent(_)
selToIdent(sel) ==
    IF Len(sel) = 0 THEN "" ELSE IdentToken(sel[1]) \o selToIdent(Tail(sel))

-----------------------------------------------------------------------------
(* reducePointer, objFromType, getElemType.                                *)

\* The pointer interface is any type with an Elem method: pointers, and
\* slices, channels and maps as well.
reducePointer(typ) ==
    IF typ[1] \in Constructors THEN <<ElemOf(typ), TRUE>> ELSE <<typ, FALSE>>

\* The named type typ reduces to, or <<>> (nil).
objFromType(typ) ==
    IF IsNamed(reducePointer(typ)[1]) THEN reducePointer(typ)[1] ELSE <<>>

\* The alias getElemType picks for the package of a cross-module type
\* (lines 461-465).
aliasFor(pk, imp) ==
    IF pk.name \in DOMAIN imp /\ imp[pk.name] # pk.path
    THEN FlattenPath(pk)
    ELSE pk.name

\* imports[name] = pkg.Path()
Bind(imp, name, path) ==
    [a \in DOMAIN imp \cup {name} |-> IF a = name THEN path ELSE imp[a]]

\* What getElemType answers: the element type as written in the generated
\* code, the table after the call, and the alias and path it bound ("" and
\* <<>> when it bound none).
ElemType(kind, imp, alias, path) ==
    [kind |-> kind, imports |-> imp, alias |-> alias, path |-> path]

\* Lines 467-479: kind, given the qualifier.  kind[0] is '*' exactly when
\* kind is the String() of a pointer type, that is when obj is nil.
elemKind(t, obj, qualifier, rawkind) ==
    IF obj = <<>> THEN TypeString(t)
    ELSE (IF ~rawkind /\ t[1] = "*" THEN "*" ELSE "") \o qualifier \o ObjName(obj)

\* Lines 462-468, for a type of another package (by name).
crossElemType(t, obj, pk, name, imp, rawkind) ==
    ElemType(elemKind(t, obj, name \o ".", rawkind), Bind(imp, name, pk.path), name, pk.path)

elemTypeOf(t, obj, imp, rawkind) ==
    IF obj # <<>> /\ PkgOf(obj).name # x
    THEN crossElemType(t, obj, PkgOf(obj), aliasFor(PkgOf(obj), imp), imp, rawkind)
    ELSE ElemType(elemKind(t, obj, "", rawkind), imp, "", <<>>)

getElemType(t, imp, rawkind) == elemTypeOf(t, objFromType(t), imp, rawkind)

-----------------------------------------------------------------------------
(* The Capability Detector.                                                *)

\* Lines 506-514: the result type against the receiver type.
matchSignature(ret, sig) ==
    IF ret[1] # sig[1] THEN <<FALSE, FALSE>> ELSE <<TRUE, ret[2]>>

\* A faulty detector, against which the termination property is tried: no
\* declared method is ever recognised.
scanNothing(ms, i) == <<FALSE, FALSE>>

\* The loop of lines 491-515 over the methods of v, from method i on.
RECURSIVE scanMethods(_, _)
scanMethods(ms, i) ==
    IF i > Len(ms) THEN <<FALSE, FALSE>>
    ELSE IF ms[i].name # "DeepCopy" THEN scanMethods(ms, i + 1)
    ELSE IF ms[i].nparams # 0 \/ Len(ms[i].results) # 1 THEN scanMethods(ms, i + 1)
    ELSE matchSignature(reducePointer(ms[i].results[1]), reducePointer(ms[i].recv))

\* A faulty detector, against which the mutual-reference property is tried:
\* no type is ever recognised as being generated.
inGeneratingNever(v, generating) == FALSE

\* Whether v is one of the types being generated (lines 485-489).
inGenerating(v, generating) ==
    \E j \in 1..Len(generating) : generating[j] = v

\* <<hasMethod, isPointer>>
hasDeepCopy(v, generating, pointer) ==
    IF inGenerating(v, generating) THEN <<TRUE, pointer>>
    ELSE scanMethods(Decl[v[1]].methods, 1)

\* A statement of the generated code.
Line(op, a, b, c, kind, kind2) ==
    [op |-> op, a |-> a, b |-> b, c |-> c, kind |-> kind, kind2 |-> kind2]
Stmt(op, a, b) == Line(op, a, b, <<>>, "", "")
Close == Stmt("close", <<>>, <<>>)

\* Lines 523-539: whether a call was emitted, and the call.
\*   call       sink = source.DeepCopy()
\*   call_addr  retV := source.DeepCopy(); sink = &retV
\*   call_deref { retV := source.DeepCopy(); sink = *retV }
emitReuse(source, sink, pointer, h) ==
    [ok  |-> h[1],
     out |-> IF ~h[1] THEN <<>>
             ELSE IF pointer = h[2] THEN <<Stmt("call", sink, source)>>
             ELSE IF pointer THEN <<Stmt("call_addr", sink, source)>>
             ELSE <<Stmt("call_deref", sink, source)>>]

reuseDeepCopy(source, sink, v, pointer, generating) ==
    emitReuse(source, sink, pointer, hasDeepCopy(v, generating, pointer))

NoReuse == [ok |-> FALSE, out |-> <<>>]

-----------------------------------------------------------------------------
(* The Code Synthesis Engine.                                              *)

\* Lines 314-320: only exported fields of a named type of another package
\* (by package name) are walked.
needExported(m) == IsNamed(m) /\ PkgOf(m).name # x

\* A faulty walk, against which the skip property is tried: a selector that
\* names a field never skips it.
fieldNeverSkipped(sink, fname, skips) == FALSE

\* Lines 334-339: whether the skip set holds the field's selector.
fieldSkipped(sink, fname, skips) ==
    AfterFirstDot(sink \o <<".", fname>>) \in skips

\* Lines 345-354 and 404-413: whether the skip set holds the selector of the
\* elements (ph is "[i]" or "[k]").
elemSkipped(sink, ph, skips, initial) ==
    AfterFirstDot(IF initial THEN <<ph>> ELSE sink \o <<ph>>) \in skips

\* What a walk did: the text written, the imports after it, and whether it
\* ran out of fuel.
Walked(out, imp, over) == [out |-> out, imports |-> imp, over |-> over]

\* One walk after another, into the same writer.
Then(first, second) == Walked(first.out \o second.out, second.imports, second.over)

RECURSIVE walkType(_, _, _, _, _, _, _, _)
RECURSIVE walkFields(_, _, _, _, _, _, _, _, _)

\* Lines 330-340: one field.
walkField(field, source, sink, needExp, imp, skips, generating, fuel) ==
    IF (needExp /\ ~field.exported) \/ fieldSkipped(sink, field.name, skips)
    THEN Walked(<<>>, imp, FALSE)
    ELSE walkType(source \o <<".", field.name>>, sink \o <<".", field.name>>,
                  field.typ, imp, skips, generating, FALSE, fuel - 1)

fieldsAfter(this, i, source, sink, fields, needExp, skips, generating, fuel) ==
    IF this.over THEN this
    ELSE Then(this, walkFields(i + 1, source, sink, fields, needExp, this.imports,
                               skips, generating, fuel))

\* The loop of lines 329-341 over the fields of the struct, from field i on.
walkFields(i, source, sink, fields, needExp, imp, skips, generating, fuel) ==
    IF i > Len(fields) THEN Walked(<<>>, imp, FALSE)
    ELSE fieldsAfter(walkField(fields[i], source, sink, needExp, imp, skips, generating, fuel),
                     i, source, sink, fields, needExp, skips, generating, fuel)

\* Lines 356-378: the text of the slice case around that of its elements.
sliceCode(source, sink, kind, b) ==
    Walked(<< Stmt("if", <<>>, source),
              Line("make_slice", sink, source, <<>>, kind, ""),
              Stmt("copy", sink, source) >>
           \o (IF Len(b.out) > 0 THEN <<Stmt("for_i", <<>>, source)>> \o b.out \o <<Close>>
               ELSE <<>>)
           \o <<Close>>,
           b.imports, b.over)

\* Lines 345-367: the elements, unless their selector is skipped.
sliceElems(source, sink, elem, ge, skips, generating, initial, fuel) ==
    sliceCode(source, sink, ge.kind,
              IF elemSkipped(sink, "[i]", skips, initial)
              THEN Walked(<<>>, ge.imports, FALSE)
              ELSE walkType(source \o <<"[i]">>, sink \o <<"[i]">>, elem, ge.imports,
                            skips, generating, FALSE, fuel - 1))

\* Lines 342-378.
walkSlice(source, sink, elem, imp, skips, generating, initial, fuel) ==
    sliceElems(source, sink, elem, getElemType(elem, imp, FALSE), skips, generating,
               initial, fuel)

\* Lines 383-389: the pointee is allocated, copied and walked.
pointerCode(source, sink, kind, rec) ==
    Walked(<< Stmt("if", <<>>, source),
              Line("new", sink, <<>>, <<>>, kind, ""),
              Stmt("assign_deref", sink, source) >>
           \o rec.out \o <<Close>>,
           rec.imports, rec.over)

pointerInline(source, sink, elem, ge, skips, generating, fuel) ==
    pointerCode(source, sink, ge.kind,
                walkType(source, sink, elem, ge.imports, skips, generating, FALSE, fuel - 1))

pointerAfter(reuse, source, sink, elem, imp, skips, generating, fuel) ==
    IF reuse.ok
    THEN Walked(<<Stmt("if", <<>>, source)>> \o reuse.out \o <<Close>>, imp, FALSE)
    ELSE pointerInline(source, sink, elem, getElemType(elem, imp, TRUE), skips,
                       generating, fuel)

\* Lines 379-392.
walkPointer(source, sink, elem, imp, skips, generating, initial, fuel) ==
    pointerAfter(IF IsNamed(elem) /\ ~initial
                 THEN reuseDeepCopy(source, sink, elem, TRUE, generating)
                 ELSE NoReuse,
                 source, sink, elem, imp, skips, generating, fuel)

\* Lines 393-399.
chanCode(source, sink, ge) ==
    Walked(<< Stmt("if", <<>>, source),
              Line("make_chan", sink, source, <<>>, ge.kind, ""),
              Close >>,
           ge.imports, FALSE)

walkChan(source, sink, elem, imp) == chanCode(source, sink, getElemType(elem, imp, FALSE))

\* Lines 415-450: the text of the map case around that of the key (bk) and
\* of the value (bv).
mapCode(source, sink, kkind, vkind, copyK, copyV, bk, bv) ==
    Walked(<< Stmt("if", <<>>, source),
              Line("make_map", sink, source, <<>>, kkind, vkind),
              Stmt("for_kv", <<>>, source) >>
           \o (IF Len(bk.out) > 0
               THEN <<Line("var", copyK, <<>>, <<>>, kkind, "")>> \o bk.out ELSE <<>>)
           \o (IF Len(bv.out) > 0
               THEN <<Line("var", copyV, <<>>, <<>>, vkind, "")>> \o bv.out ELSE <<>>)
           \o << Line("map_insert", sink,
                      IF Len(bk.out) > 0 THEN copyK ELSE <<"k">>,
                      IF Len(bv.out) > 0 THEN copyV ELSE <<"v">>, "", ""),
                 Close, Close >>,
           bv.imports, bk.over \/ bv.over)

\* Lines 437-446: the value, after the key.
mapValue(source, sink, velem, kkind, vkind, skip, bk, skips, generating, fuel) ==
    mapCode(source, sink, kkind, vkind,
            <<selToIdent(sink) \o "_k">>, <<selToIdent(sink) \o "_v">>, bk,
            IF skip \/ bk.over THEN Walked(<<>>, bk.imports, bk.over)
            ELSE walkType(<<"v">>, <<selToIdent(sink) \o "_v">>, velem, bk.imports,
                          skips, generating, FALSE, fuel - 1))

\* Lines 424-433: the key.
mapKey(source, sink, kelem, velem, kkind, gv, skip, skips, generating, fuel) ==
    mapValue(source, sink, velem, kkind, gv.kind, skip,
             IF skip THEN Walked(<<>>, gv.imports, FALSE)
             ELSE walkType(<<"k">>, <<selToIdent(sink) \o "_k">>, kelem, gv.imports,
                           skips, generating, FALSE, fuel - 1),
             skips, generating, fuel)

mapKinds(source, sink, u, gk, skips, generating, initial, fuel) ==
    mapKey(source, sink, KeyOf(u), ElemOf(u), gk.kind, getElemType(ElemOf(u), gk.imports, FALSE),
           elemSkipped(sink, "[k]", skips, initial), skips, generating, fuel)

\* Lines 400-450.
walkMap(source, sink, u, imp, skips, generating, initial, fuel) ==
    mapKinds(source, sink, u, getElemType(KeyOf(u), imp, FALSE), skips, generating,
             initial, fuel)

\* Lines 326-451: the switch on the underlying type.
walkUnder(source, sink, m, kind, imp, skips, generating, initial, fuel) ==
    CASE kind = "struct" ->
           walkFields(1, source, sink, UFields(m), needExported(m), imp, skips,
                      generating, fuel)
      [] kind = "slice" ->
           walkSlice(source, sink, ElemOf(Underlying(m)), imp, skips, generating,
                     initial, fuel)
      [] kind = "ptr" ->
           walkPointer(source, sink, ElemOf(Underlying(m)), imp, skips, generating,
                       initial, fuel)
      [] kind = "chan" -> walkChan(source, sink, ElemOf(Underlying(m)), imp)
      [] kind = "map" ->
           walkMap(source, sink, Underlying(m), imp, skips, generating, initial, fuel)
      [] OTHER -> Walked(<<>>, imp, FALSE)

typeAfter(reuse, source, sink, m, imp, skips, generating, initial, fuel) ==
    IF reuse.ok THEN Walked(reuse.out, imp, FALSE)
    ELSE walkUnder(source, sink, m, UKind(m), imp, skips, generating, initial, fuel)

\* walkType.  fuel bounds the depth of the recursion: a walk that runs out
\* of it reports over, and stands for one that does not return.
walkType(source, sink, m, imp, skips, generating, initial, fuel) ==
    IF fuel = 0 THEN Walked(<<>>, imp, TRUE)
    ELSE IF m = <<>> THEN Walked(<<>>, imp, FALSE)
    ELSE typeAfter(IF IsNamed(m) /\ ~initial
                   THEN reuseDeepCopy(source, sink, m, FALSE, generating)
                   ELSE NoReuse,
                   source, sink, m, imp, skips, generating, initial, fuel)

-----------------------------------------------------------------------------
(* The command line and main.                                              *)

\* The types of the target package, by name (what locateType can find).
LocalTypes == {n \in DOMAIN Decl : Decl[n].cls = "named" /\ Decl[n].pkg = TargetPkg}

\* The command lines the model passes: the -type flags, in order, ...
Batchable == {"A", "B", "W8", "Good", "C9", "Node"}
TypeLists ==
    {<<>>, <<"">>, <<"Missing">>}
    \cup {<<t>> : t \in {"A", "B", "R1", "NL", "NM", "S5", "E6", "W8", "Good", "C9",
                         "Node", "Inf", "I4"}}
    \cup {l \in Batchable \X Batchable : l[1] # l[2]}

\* ... and, by the first -type, the -skip flags (each already split at its
\* commas) that may follow it.
SkipsFor(t) ==
    CASE t = "S5" -> { {<<"F">>}, {<<"Items">>}, {<<"Items", "[i]">>}, {<<"M", "[k]">>},
                       {<<"M">>, <<"LL", "[i]">>}, {<<"LL", "[i]", "[i]">>, <<"In", ".", "F">>} }
      [] t = "R1" -> { {<<"H", "[i]">>, <<"Q", "[i]", "[i]">>}, {<<"G">>} }
      [] t = "NL" -> { {<<"[i]">>} }
      [] t = "NM" -> { {<<"[k]">>} }
      [] t = "A"  -> { {<<"Next">>} }
      [] t = "C9" -> { {<<"N">>, <<"Me", "[k]">>} }
      [] OTHER    -> {}
SkipArgs == UNION {SkipsFor(t[1]) : t \in {l \in TypeLists : Len(l) > 0}}

\* The values of -o the model passes.
FileArgs == {"a.go"}

\* os.Stdout in the open-file table.
Stdout == 1

Handle(n) == [name |-> n, open |-> TRUE]

Init ==
    /\ pc = "parse"
    /\ typesF = <<>>
    /\ skipsF = <<>>
    /\ pointerF = FALSE
    /\ outputF = [file |-> 0, name |-> ""]
    /\ handles = <<Handle("stdout")>>
    /\ disk \in [FileArgs -> {"absent", "old"}]
    /\ objs = <<>>
    /\ idx = 0
    /\ imports = <<>>
    /\ fns = <<>>
    /\ overflow = FALSE
    /\ runResult = "none"
    /\ handed = {}
    /\ exitCode = 0

runVars == <<objs, idx, imports, fns, overflow, runResult>>
flagVars == <<typesF, skipsF, pointerF>>
fileVars == <<outputF, handles, disk>>

\* log.Fatalln, or the exit of flag.Parse on a failing Set: os.Exit(code).
\* The process ends where it stands: nothing is closed.
Exit(code) == pc' = "exit" /\ exitCode' = code

\* typesVal.Set (lines 32-35), one -type flag.
TypeSet(v) ==
    /\ pc = "parse"
    /\ Append(typesF, v) \in TypeLists
    /\ typesF' = Append(typesF, v)
    /\ UNCHANGED <<pc, skipsF, pointerF, fileVars, runVars, handed, exitCode>>

\* skipsVal.Set (lines 52-62), one -skip flag.
SkipSet(v) ==
    /\ pc = "parse"
    /\ Len(typesF) > 0 /\ skipsF = <<>>
    /\ v \in SkipsFor(typesF[1])
    /\ skipsF' = Append(skipsF, v)
    /\ UNCHANGED <<pc, typesF, pointerF, fileVars, runVars, handed, exitCode>>

\* -pointer-receiver (line 19).
PointerSet ==
    /\ pc = "parse"
    /\ ~pointerF
    /\ pointerF' = TRUE
    /\ UNCHANGED <<pc, typesF, skipsF, fileVars, runVars, handed, exitCode>>

\* The number of -o flags seen: each but "-" opens a file.
OutputFlagsSeen == Len(handles) - 1

\* outputVal.Set (lines 73-94) with "-" or "": standard output.
OutputSetStdout(v) ==
    /\ pc = "parse"
    /\ v \in {"-", ""}
    /\ outputF' = [file |-> 0, name |-> "stdout"]
    /\ handles' = IF outputF.file # 0
                  THEN [handles EXCEPT ![outputF.file].open = FALSE]
                  ELSE handles
    /\ UNCHANGED <<pc, flagVars, disk, runVars, handed, exitCode>>

\* outputVal.Set with a path: os.OpenFile(v, O_RDWR|O_CREATE) creates the
\* file when it is absent and keeps its content when it is not.
OutputSetFile(v, ok) ==
    /\ pc = "parse"
    /\ v \in FileArgs
    /\ OutputFlagsSeen < MaxOutputFlags
    /\ IF ok
       THEN /\ handles' = Append(handles, Handle(v))
            /\ outputF' = [file |-> Len(handles) + 1, name |-> v]
            /\ disk' = [disk EXCEPT ![v] = IF @ = "absent" THEN "empty" ELSE @]
            /\ UNCHANGED <<pc, exitCode>>
       ELSE /\ Exit(2)
            /\ UNCHANGED <<handles, outputF, disk>>
    /\ UNCHANGED <<flagVars, runVars, handed>>

\* Lines 116-124: flag.Parse returns; the checks of the arguments.
CheckArgs(nargs) ==
    /\ pc = "parse"
    /\ IF Len(typesF) = 0 \/ typesF[1] = "" THEN Exit(1)
       ELSE IF nargs # 1 THEN Exit(1)
       ELSE pc' = "load" /\ UNCHANGED exitCode
    /\ UNCHANGED <<flagVars, fileVars, runVars, handed>>

-----------------------------------------------------------------------------
(* run.                                                                    *)

\* locateType: the type of the target package named sel, <<>> when none is.
locateType(sel) == IF sel \in LocalTypes THEN <<sel>> ELSE <<>>

\* Lines 142-160: the package is loaded and every requested type located.
\* loaded is what packages.Load answered: "err", "none" (no package) or "ok".
RunLoad(loaded) ==
    /\ pc = "load"
    /\ IF loaded # "ok" \/ \E j \in 1..Len(typesF) : locateType(typesF[j]) = <<>>
       THEN /\ runResult' = "err"
            /\ pc' = "ran"
            /\ UNCHANGED <<objs, idx, imports, fns>>
       ELSE /\ objs' = [j \in 1..Len(typesF) |-> locateType(typesF[j])]
            /\ idx' = 1
            /\ imports' = <<>>
            /\ fns' = <<>>
            /\ pc' = "generate"
            /\ UNCHANGED runResult
    /\ UNCHANGED <<flagVars, fileVars, overflow, handed, exitCode>>

\* The skip set of the i-th requested type (lines 163-166).
skipsOf(i) == IF i <= Len(skipsF) THEN skipsF[i] ELSE {}

\* generateFunc: the method of obj and the imports after it.
funcOf(obj, pointer, w) ==
    [fn |-> [kind |-> ObjName(obj), pointer |-> pointer, body |-> w.out],
     imports |-> w.imports, over |-> w.over]

generateFunc(obj, imp, skips, pointer, generating) ==
    funcOf(obj, pointer,
           walkType(<<"o">>, <<"cp">>, obj, imp, skips, generating, TRUE, MaxDepth))

\* Lines 168-173, with the method g that generateFunc answered.  A walk that
\* does not return ends the process with a stack overflow.
Generated(g) ==
    IF g.over
    THEN /\ overflow' = TRUE
         /\ Exit(2)
         /\ UNCHANGED <<fns, imports, idx>>
    ELSE /\ fns' = Append(fns, g.fn)
         /\ imports' = g.imports
         /\ idx' = idx + 1
         /\ UNCHANGED <<overflow, pc, exitCode>>

\* One turn of the loop of lines 162-174.
GenerateFunc ==
    /\ pc = "generate"
    /\ idx <= Len(objs)
    /\ Generated(generateFunc(objs[idx], imports, skipsOf(idx), pointerF, objs))
    /\ UNCHANGED <<flagVars, fileVars, objs, runResult, handed>>

\* generateFile (lines 216-244) and the return of run: formatted is whether
\* format.Source accepted the text.
GenerateFile(formatted) ==
    /\ pc = "generate"
    /\ idx > Len(objs)
    /\ runResult' = IF formatted THEN "ok" ELSE "err"
    /\ pc' = "ran"
    /\ UNCHANGED <<flagVars, fileVars, objs, idx, imports, fns, overflow, handed, exitCode>>

\* Lines 126-129.
RunReturned ==
    /\ pc = "ran"
    /\ IF runResult = "err" THEN Exit(1) ELSE pc' = "open" /\ UNCHANGED exitCode
    /\ UNCHANGED <<flagVars, fileVars, runVars, handed>>

\* outputVal.Open (lines 96-107) and lines 131-134: truncated is whether
\* Truncate(0) succeeded.
OpenOutput(truncated) ==
    /\ pc = "open"
    /\ IF outputF.file = 0
       THEN /\ outputF' = [outputF EXCEPT !.file = Stdout]
            /\ pc' = "write"
            /\ UNCHANGED <<disk, exitCode>>
       ELSE IF truncated
       THEN /\ disk' = [disk EXCEPT ![handles[outputF.file].name] = "empty"]
            /\ pc' = "write"
            /\ UNCHANGED <<outputF, exitCode>>
       ELSE /\ Exit(1)
            /\ UNCHANGED <<outputF, disk>>
    /\ UNCHANGED <<flagVars, handles, runVars, handed>>

\* What the file holds after b is written at its start.
Written(before) == IF before = "old" THEN "new+old" ELSE "new"

\* Lines 135-138: the write and, when it succeeds, the close.
WriteOutput(wrote) ==
    /\ pc = "write"
    /\ IF wrote
       THEN /\ disk' = IF outputF.file = Stdout THEN disk
                       ELSE [disk EXCEPT ![handles[outputF.file].name] = Written(@)]
            /\ handles' = [handles EXCEPT ![outputF.file].open = FALSE]
            /\ pc' = "done"
            /\ UNCHANGED exitCode
       ELSE /\ Exit(1)
            /\ UNCHANGED <<disk, handles>>
    /\ UNCHANGED <<flagVars, outputF, runVars, handed>>

Next ==
    \/ \E v \in DOMAIN Decl \cup {"Missing", ""} : TypeSet(v)
    \/ \E v \in SkipArgs : SkipSet(v)
    \/ PointerSet
    \/ \E v \in {"-", ""} : OutputSetStdout(v)
    \/ \E v \in FileArgs, ok \in BOOLEAN : OutputSetFile(v, ok)
    \/ \E nargs \in 0..2 : CheckArgs(nargs)
    \/ \E loaded \in {"err", "none", "ok"} : RunLoad(loaded)
    \/ GenerateFunc
    \/ \E formatted \in BOOLEAN : GenerateFile(formatted)
    \/ RunReturned
    \/ \E truncated \in BOOLEAN : OpenOutput(truncated)
    \/ \E wrote \in BOOLEAN : WriteOutput(wrote)

Spec == Init /\ [][Next]_vars

-----------------------------------------------------------------------------
(* The Reference Table on its own: any sequence of cross-module references *)
(* of one run, each resolved by getElemType.                               *)

\* The element types the references are drawn from.
RefTypes ==
    { <<"extT">>, <<"*", "extT">>, <<"foo1T">>, <<"[]", "foo1T">>, <<"foo2T">>,
      <<"*", "foo2T">>, <<"foo3T">>, <<"barT">>, <<"ext2T">>, <<"p2T">>, <<"X">>, <<"[]", "int">> }

ImportsInit ==
    /\ pc = "refs"
    /\ typesF = <<>>
    /\ skipsF = <<>>
    /\ pointerF = FALSE
    /\ outputF = [file |-> 0, name |-> ""]
    /\ handles = <<Handle("stdout")>>
    /\ disk = [f \in FileArgs |-> "absent"]
    /\ objs = <<>>
    /\ idx = 0
    /\ imports = <<>>
    /\ fns = <<>>
    /\ overflow = FALSE
    /\ runResult = "none"
    /\ handed = {}
    /\ exitCode = 0

\* What the call answered with: the alias and the path it stands for.
Answered(ge) == IF ge.alias = "" THEN {} ELSE {<<ge.alias, ge.path>>}

Resolved(ge) ==
    /\ imports' = ge.imports
    /\ handed' = handed \cup Answered(ge)

\* One call of getElemType (lines 455-482).
ResolveRef(t, rawkind) ==
    /\ pc = "refs"
    /\ Resolved(getElemType(t, imports, rawkind))
    /\ UNCHANGED <<pc, flagVars, fileVars, objs, idx, fns, overflow, runResult, exitCode>>

ImportsNext == \E t \in RefTypes, rawkind \in BOOLEAN : ResolveRef(t, rawkind)

SpecImports == ImportsInit /\ [][ImportsNext]_vars

-----------------------------------------------------------------------------
(* The meaning of the generated text: the static type of an expression,    *)
(* and the loop an index variable is bound to.                             *)

Deref(t) == IF t # <<>> /\ t[1] = "*" THEN ElemOf(t) ELSE t

HasField(t, f) ==
    /\ t # <<>>
    /\ UKind(t) = "struct"
    /\ \E j \in 1..Len(UFields(t)) : UFields(t)[j].name = f

FieldRec(t, f) == UFields(t)[CHOOSE j \in 1..Len(UFields(t)) : UFields(t)[j].name = f]

\* The type of e.tok (a selector auto-dereferences) or e[i], given that of
\* e; <<>> when the model does not type it.
StepType(t, tok) ==
    IF t = <<>> \/ tok = "[k]" THEN <<>>
    ELSE IF tok = "." THEN t
    ELSE IF tok = "[i]" THEN (IF UKind(t) = "slice" THEN ElemOf(Underlying(t)) ELSE <<>>)
    ELSE IF HasField(Deref(t), tok) THEN FieldRec(Deref(t), tok).typ
    ELSE <<>>

RECURSIVE TypeAlong(_, _)
TypeAlong(t, toks) ==
    IF toks = <<>> THEN t ELSE TypeAlong(StepType(t, Head(toks)), Tail(toks))

\* The type of an expression over o or cp in the method of root.
TypeOfPath(root, e) ==
    IF e # <<>> /\ e[1] \in {"o", "cp"} THEN TypeAlong(root, Tail(e)) ELSE <<>>

\* The named type a DeepCopy call on an expression of type t is made on.
Callee(t) == Deref(t)

\* Whether the field f of struct type t is an unexported field of a type
\* declared outside the target package.
HiddenField(t, f) ==
    /\ Decl[Underlying(t)[1]].pkg # TargetPkg
    /\ ~FieldRec(t, f).exported

RECURSIVE TouchesHidden(_, _)
TouchesHidden(t, toks) ==
    IF toks = <<>> \/ t = <<>> THEN FALSE
    ELSE \/ /\ Head(toks) \notin {".", "[i]", "[k]"}
            /\ HasField(Deref(t), Head(toks))
            /\ HiddenField(Deref(t), Head(toks))
         \/ TouchesHidden(StepType(t, Head(toks)), Tail(toks))

\* The blocks open after statement n: for each, whether it is a loop over i
\* and what it ranges over.
RECURSIVE Blocks(_, _)
Blocks(body, n) ==
    IF n = 0 THEN <<>>
    ELSE LET prev == Blocks(body, n - 1)
         IN  IF body[n].op = "close" THEN SubSeq(prev, 1, Len(prev) - 1)
             ELSE IF body[n].op = "for_i"
             THEN Append(prev, [loop |-> TRUE, range |-> body[n].b])
             ELSE IF body[n].op \in {"if", "for_kv"}
             THEN Append(prev, [loop |-> FALSE, range |-> <<>>])
             ELSE prev

IsLoop(blk) == blk.loop

\* The loops over i that enclose statement n, innermost last.  The range
\* expression of a for statement is outside its own scope.
LoopsAround(body, n) == SelectSeq(Blocks(body, n - 1), IsLoop)

\* Go binds every i of a statement to the innermost enclosing loop over i.
\* Whether each index of e is then the index of the loop over what it
\* indexes (heads apart: the source is o, v or k, the sink its copy).
IndexedByOwnLoop(e, loops) ==
    \A q \in 1..Len(e) :
        e[q] = "[i]" =>
            /\ Len(loops) > 0
            /\ Tail(SubSeq(e, 1, q - 1)) = Tail(loops[Len(loops)].range)

\* Whether an expression over o or cp in the method of root names such a
\* field.
NamesHidden(root, e) ==
    e # <<>> /\ e[1] \in {"o", "cp"} /\ TouchesHidden(root, Tail(e))

\* The fields of a struct type; none of any other type.
FieldsOf(t) == IF t # <<>> /\ UKind(t) = "struct" THEN UFields(t) ELSE <<>>

Calls == {"call", "call_addr", "call_deref"}

\* The functions the run has generated so far are those of objs[1..Len(fns)].
Generating == pc = "generate"

\* Whether v is one of the requested types (the Generation Set).
Requested(v) == \E j \in 1..Len(objs) : objs[j] = v

\* The statements of the n-th generated method.
Body(n) == fns[n].body

-----------------------------------------------------------------------------
(* The claims.                                                             *)

\* C1: in the code generated for a type with (nested) sequences, every
\* element at every nesting level is copied through its own level's index:
\* each index of each expression is the variable of the loop over the
\* sequence it indexes.
C1_OwnLevelIndex ==
    Generating =>
        \A n \in 1..Len(fns) : \A j \in 1..Len(fns[n].body) :
            /\ IndexedByOwnLoop(fns[n].body[j].a, LoopsAround(fns[n].body, j))
            /\ IndexedByOwnLoop(fns[n].body[j].b, LoopsAround(fns[n].body, j))

\* The call that reconciles a DeepCopy result of shape resultPtr with a sink
\* of shape sinkPtr.
Reconciled(sinkPtr, resultPtr) ==
    IF sinkPtr = resultPtr THEN "call"
    ELSE IF sinkPtr THEN "call_addr"
    ELSE "call_deref"

\* C2: a call to the DeepCopy of a member of the Generation Set assumes the
\* shape configured for the run (the pointer-receiver option) and reconciles
\* it with the sink: direct assignment when the shapes agree, wrap or
\* dereference when they differ.
C2_RunShapeReconciled ==
    Generating =>
        \A n \in 1..Len(fns) : \A j \in 1..Len(fns[n].body) :
            LET l  == fns[n].body[j]
                st == TypeOfPath(objs[n], l.a)
            IN  (l.op \in Calls /\ st # <<>> /\ Requested(Callee(st)))
                    => l.op = Reconciled(st[1] = "*", fns[n].pointer)

\* C4: every alias handed out still maps to the path it was handed out for,
\* every path has received at most one alias, and an alias is the short name
\* of the package or its flattened path.
C4_AliasesStable ==
    /\ \A h \in handed : h[1] \in DOMAIN imports /\ imports[h[1]] = h[2]
    /\ \A h1 \in handed, h2 \in handed : h1[2] = h2[2] => h1[1] = h2[1]
    /\ \A h \in handed : \E pk \in DOMAIN Pkg :
           Pkg[pk].path = h[2] /\ h[1] \in {Pkg[pk].name, FlattenPath(Pkg[pk])}

\* C6: no statement of the generated code names an unexported field of an
\* aggregate declared outside the target package.
C6_NoHiddenField ==
    Generating =>
        \A n \in 1..Len(fns) : \A j \in 1..Len(fns[n].body) :
            /\ ~NamesHidden(objs[n], fns[n].body[j].a)
            /\ ~NamesHidden(objs[n], fns[n].body[j].b)

\* The files opened for the output (every handle but os.Stdout).
OutputHandles == 2..Len(handles)

\* C7: the output file is open only after run has succeeded, holds the
\* generated text alone once written, and is closed when main ends, however
\* it ends.
C7_OutputScoped ==
    /\ \A h \in OutputHandles : handles[h].open => runResult = "ok"
    /\ pc = "done" => \A f \in FileArgs : disk[f] # "new+old"
    /\ pc \in {"done", "exit"} => \A h \in OutputHandles : ~handles[h].open

\* The DeepCopy capability as claimed: a method DeepCopy() T or DeepCopy() *T
\* of T.  Its shape, when it has one.
DeepCopyOf(v) ==
    {m \in {Decl[v[1]].methods[j] : j \in 1..Len(Decl[v[1]].methods)} :
        /\ m.name = "DeepCopy" /\ m.nparams = 0 /\ Len(m.results) = 1
        /\ Deref(m.results[1]) = v /\ Deref(m.recv) = v}

\* C8: outside the Generation Set, DeepCopy is called exactly on the types
\* that declare DeepCopy() T or DeepCopy() *T, and the call reconciles the
\* shape of that result with the sink; a method named DeepCopy of another
\* signature is never called.
C8_OnlyMatchingMethod ==
    Generating =>
        \A n \in 1..Len(fns) :
            /\ \A j \in 1..Len(fns[n].body) :
                   LET l  == fns[n].body[j]
                       st == TypeOfPath(objs[n], l.a)
                   IN  (l.op \in Calls /\ st # <<>> /\ ~Requested(Callee(st)))
                           => \E m \in DeepCopyOf(Callee(st)) :
                                  l.op = Reconciled(st[1] = "*", m.results[1][1] = "*")
            /\ \A k \in 1..Len(FieldsOf(objs[n])) :
                   LET f == FieldsOf(objs[n])[k]
                   IN  ( /\ IsNamed(Deref(f.typ))
                         /\ ~Requested(Deref(f.typ))
                         /\ DeepCopyOf(Deref(f.typ)) # {}
                         /\ ~fieldSkipped(<<"cp">>, f.name, skipsOf(n)) )
                           => \E j \in 1..Len(fns[n].body) :
                                  /\ fns[n].body[j].op \in Calls
                                  /\ fns[n].body[j].a = <<"cp", ".", f.name>>

\* The selectors of the field f of the aggregate held by the associative
\* field m, and of what holds it.
PathsTo(m, f) == {<<m>>, <<m, "[k]">>, <<m, "[k]", ".", f>>}

\* C10: a field F of an aggregate stored as the value of an associative
\* field M, when F is a sequence, is still deep-copied (a new sequence is
\* made for it) unless the skip set holds the selector of M, M[k] or M[k].F.
C10_SkipIsPathExact ==
    Generating =>
        \A n \in 1..Len(fns) : \A k \in 1..Len(FieldsOf(objs[n])) :
            LET m == FieldsOf(objs[n])[k]
                v == ElemOf(m.typ)
            IN  (TKind(m.typ) = "map" /\ UKind(v) = "struct" /\ IsNamed(v)
                 /\ ~Requested(v) /\ DeepCopyOf(v) = {})
                    => \A i \in 1..Len(UFields(v)) :
                           ( /\ TKind(UFields(v)[i].typ) = "slice"
                             /\ PathsTo(m.name, UFields(v)[i].name) \cap skipsOf(n) = {} )
                               => \E j \in 1..Len(fns[n].body) :
                                      /\ fns[n].body[j].op = "make_slice"
                                      /\ fns[n].body[j].a =
                                             <<"cp_" \o m.name \o "_v", ".", UFields(v)[i].name>>

-----------------------------------------------------------------------------
(* The type graph, read from the declarations alone.                       *)

\* The declared types a type expression refers to in a position the walk
\* can reach: it follows indirections, sequence elements and the keys and
\* values of associative containers, and nothing behind a channel.
TypeRefs(typ) ==
    IF \E q \in 1..Len(typ) : typ[q] = "chan" THEN {}
    ELSE {typ[q] : q \in 1..Len(typ)} \cap {d \in DOMAIN Decl : Decl[d].cls # "basic"}

\* The edges of the type graph out of the declared type d.
Refs(d) ==
    IF Decl[d].under # <<>> THEN TypeRefs(Decl[d].under)
    ELSE UNION {TypeRefs(Decl[d].fields[j].typ) : j \in 1..Len(Decl[d].fields)}

\* The types reached from those of S along paths that do not continue
\* through a type of cut.
RECURSIVE Below(_, _)
Below(S, cut) ==
    LET T == S \cup UNION {Refs(d) : d \in S \ cut}
    IN  IF T = S THEN S ELSE Below(T, cut)

\* Whether every cycle of the type graph that a walk from root can enter
\* passes through a type of cut.
CyclesCut(root, cut) ==
    \A d \in Below(Refs(root), cut) \ cut : d \notin Below(Refs(d), cut)

\* The names of the requested types.
RequestedNames == {objs[j][1] : j \in 1..Len(objs)}

\* The types with the DeepCopy capability as claimed.
Capable == {d \in DOMAIN Decl : Decl[d].cls = "named" /\ DeepCopyOf(<<d>>) # {}}

\* Whether the requested types are two or more and refer to one another,
\* each reaching every other one.
MutuallyReferencing ==
    /\ Len(objs) >= 2
    /\ \A d \in RequestedNames : RequestedNames \ {d} \subseteq Below(Refs(d), {})

\* What a field refers to: its type, or the type of its elements or values,
\* less one indirection.
RefTarget(typ) ==
    Deref(IF TKind(typ) \in {"slice", "map"} THEN ElemOf(typ) ELSE typ)

\* The sink the walk gives that reference of the field named f.
RefSink(f, typ) ==
    IF TKind(typ) = "slice" THEN <<"cp", ".", f, "[i]">>
    ELSE IF TKind(typ) = "map" THEN <<"cp_" \o f \o "_v">>
    ELSE <<"cp", ".", f>>

\* Whether the expression e (the tokens after its head, from type t) selects
\* a field of a requested type other than the root the method is for.
RECURSIVE Descends(_, _, _)
Descends(t, toks, atRoot) ==
    IF toks = <<>> \/ t = <<>> THEN FALSE
    ELSE \/ /\ Head(toks) \notin {".", "[i]", "[k]"}
            /\ ~atRoot
            /\ Requested(Deref(t))
         \/ Descends(StepType(t, Head(toks)), Tail(toks), atRoot /\ Head(toks) = ".")

DescendsInto(root, e) ==
    e # <<>> /\ e[1] \in {"o", "cp"} /\ Descends(root, Tail(e), TRUE)

\* C3: when two or more mutually referencing types are requested together,
\* every reference from one requested type to a requested type (directly,
\* through an indirection, or as a sequence element or associative value) is
\* a call of that type's DeepCopy, no statement reaches into the fields of
\* the referenced type, and no walk of the batch fails to return.
C3_MutualReferencesCalled ==
    MutuallyReferencing =>
        /\ (overflow => ~CyclesCut(objs[idx][1], RequestedNames))
        /\ \A n \in 1..Len(fns) :
               /\ \A j \in 1..Len(Body(n)) :
                      /\ ~DescendsInto(objs[n], Body(n)[j].a)
                      /\ ~DescendsInto(objs[n], Body(n)[j].b)
                      /\ LET st == TypeOfPath(objs[n], Body(n)[j].a)
                         IN  (st # <<>> /\ Body(n)[j].a # <<"cp">> /\ Requested(Deref(st)))
                                 => Body(n)[j].op \in Calls
               /\ \A k \in 1..Len(FieldsOf(objs[n])) :
                      LET f == FieldsOf(objs[n])[k]
                      IN  (skipsOf(n) = {} /\ Requested(RefTarget(f.typ)))
                              => \E j \in 1..Len(Body(n)) :
                                     /\ Body(n)[j].op \in Calls
                                     /\ Body(n)[j].a = RefSink(f.name, f.typ)

\* C3's case: A and B, which refer to each other, requested together and
\* both generated, each calling the other's DeepCopy.
C3_BatchGenerated ==
    /\ objs = << <<"A">>, <<"B">> >>
    /\ Len(fns) = 2
    /\ \E j \in 1..Len(Body(1)) :
           Body(1)[j].op \in Calls /\ Body(1)[j].a = <<"cp", ".", "Next">>
    /\ \E j \in 1..Len(Body(2)) :
           Body(2)[j].op \in Calls /\ Body(2)[j].a = <<"cp", ".", "As", "[i]">>

\* The selectors of the elements of the field f.
ElemSelectors(f) == { <<f, "[i]">>, <<f, "[k]">> }

\* Whether statement l allocates the container of the field f of the copy.
Allocates(l, f) ==
    l.op \in {"make_slice", "make_map"} /\ l.a = <<"cp", ".", f>>

\* Whether the expression e is the field f of o or cp, or lies below it.
Within(e, f) ==
    Len(e) >= 3 /\ e[1] \in {"o", "cp"} /\ SubSeq(e, 2, 3) = <<".", f>>

\* The skip-selected sequence and associative fields of the n-th requested
\* type, by what the skip set names.
ContainerFields(n) ==
    {k \in 1..Len(FieldsOf(objs[n])) : TKind(FieldsOf(objs[n])[k].typ) \in {"slice", "map"}}
FieldName(n, k) == FieldsOf(objs[n])[k].name
SkippedWhole(n, k) == <<FieldName(n, k)>> \in skipsOf(n)
SkippedElems(n, k) ==
    ~SkippedWhole(n, k) /\ ElemSelectors(FieldName(n, k)) \cap skipsOf(n) # {}

\* C5 as stated: a skip-selected sequence or associative field, whether the
\* skip set names the field itself or its element path, still has a new
\* container allocated for it in the copy.
C5_SkippedStillAllocated ==
    Generating =>
        \A n \in 1..Len(fns) : \A k \in ContainerFields(n) :
            (SkippedWhole(n, k) \/ SkippedElems(n, k))
                => \E j \in 1..Len(Body(n)) : Allocates(Body(n)[j], FieldName(n, k))

\* C5 as the code has it: when the skip set names the element path of a
\* sequence or associative field, a new container is allocated and its
\* elements are those of the input (no statement works below the field, and
\* an entry is inserted as ranged over); when it names the field itself, no
\* statement names the field, and the copy shares the input's container.
C5_ElementSkipAllocates ==
    Generating =>
        \A n \in 1..Len(fns) : \A k \in ContainerFields(n) :
            /\ SkippedElems(n, k) =>
                   /\ \E j \in 1..Len(Body(n)) : Allocates(Body(n)[j], FieldName(n, k))
                   /\ \A j \in 1..Len(Body(n)) :
                          /\ Within(Body(n)[j].a, FieldName(n, k))
                                 => Len(Body(n)[j].a) = 3
                          /\ ( /\ Body(n)[j].op = "map_insert"
                               /\ Body(n)[j].a = <<"cp", ".", FieldName(n, k)>> )
                                 => Body(n)[j].b = <<"k">> /\ Body(n)[j].c = <<"v">>
            /\ SkippedWhole(n, k) =>
                   \A j \in 1..Len(Body(n)) :
                       /\ ~Within(Body(n)[j].a, FieldName(n, k))
                       /\ ~Within(Body(n)[j].b, FieldName(n, k))

\* C5's cases: S5 generated with the element path Items[i] skipped, and its
\* container allocated.
C5_ElementPathSkipped ==
    /\ Generating
    /\ objs = << <<"S5">> >>
    /\ Len(fns) = 1
    /\ skipsOf(1) = { <<"Items", "[i]">> }
    /\ \E j \in 1..Len(Body(1)) : Allocates(Body(1)[j], "Items")

\* C9: a walk fails to return only from a type graph with a cycle that
\* passes through no requested type and no type with the DeepCopy
\* capability; also when the walk enters the cycle from the requested type
\* itself.
C9_CutCyclesTerminate ==
    overflow => ~CyclesCut(objs[idx][1], RequestedNames \cup Capable)

\* C9's case: C9 requested alone and generated; the cycle from C9 through
\* Node back to C9 and the cycle of Node through itself are both cut at
\* Node, by a call of its DeepCopy.
C9_CycleWalked ==
    /\ objs = << <<"C9">> >>
    /\ skipsOf(1) = {}
    /\ Len(fns) = 1
    /\ ~overflow
    /\ CyclesCut("C9", RequestedNames \cup Capable)
    /\ "C9" \in Below(Refs("C9"), {})
    /\ \E j \in 1..Len(Body(1)) :
           Body(1)[j].op \in Calls /\ Body(1)[j].a = <<"cp", ".", "L", "[i]">>

====
